---- MODULE Spec2Model ----
(***************************************************************************)
(* Model of the food-logger webhook worker (src/index.ts): the fetch       *)
(* handler, handleNoteCreated, transformTranscriptWithAI and               *)
(* appendToGoogleSheets.                                                   *)
(*                                                                         *)
(* Requests are handled one after the other: a job shares no state with    *)
(* another, so every variable but jobs is reset when a request arrives.    *)
(* The log holds the outcome and error lines of a job; the dumps of the    *)
(* payload and of the environment (lines 160-173) are left out.            *)
(*                                                                         *)
(* Text is a sequence of one-string tokens.  A token is a character        *)
(* ("bq" for the backquote, " ", "\n", "j", "s", "o", "n", "x") or a JSON   *)
(* lexeme ("[", "]", ",", "null", "7", or the name of an object literal).  *)
(***************************************************************************)
EXTENDS Integers, Sequences, FiniteSets, TLC

\* ------------------------------------------------------------------ bounds
\* Longest raw response of the sanitizer harness, counted in segments.
MaxSegs == 5
\* Longest array of a model response.
MaxEntries == 2
\* Requests the worker receives.
MaxJobs == 2

\* ------------------------------------------------------------------- text
\* the backquote character
BT == "bq"
Fence == <<BT, BT, BT>>
JsonTag == <<"j", "s", "o", "n">>
FenceJson == Fence \o JsonTag

\* \s of the regular expressions and of String.prototype.trim
IsWs(c) == c \in {" ", "\n"}

StartsWith(s, p) == Len(s) >= Len(p) /\ SubSeq(s, 1, Len(p)) = p
EndsWith(s, p) == Len(s) >= Len(p) /\ SubSeq(s, Len(s) - Len(p) + 1, Len(s)) = p
Drop(s, n) == SubSeq(s, n + 1, Len(s))

RECURSIVE TrimLeft(_)
TrimLeft(s) == IF s # <<>> /\ IsWs(Head(s)) THEN TrimLeft(Tail(s)) ELSE s

RECURSIVE TrimRight(_)
TrimRight(s) ==
    IF s # <<>> /\ IsWs(s[Len(s)]) THEN TrimRight(SubSeq(s, 1, Len(s) - 1)) ELSE s

\* String.prototype.trim
Trim(s) == TrimRight(TrimLeft(s))

\* a faulty variant: removes the prefix but not the whitespace after it
DropPrefixOnly(s, p) == IF StartsWith(s, p) THEN Drop(s, Len(p)) ELSE s

\* s.replace(/^p\s*/, '') for a literal prefix p
StripLeading(s, p) == IF StartsWith(s, p) THEN TrimLeft(Drop(s, Len(p))) ELSE s

\* a faulty variant: removes the closing fence but not the whitespace before it
DropFenceOnly(s) == IF EndsWith(s, Fence) THEN SubSeq(s, 1, Len(s) - 3) ELSE s

\* s.replace(/\s*FENCE$/, ''): the leftmost match takes the whole run of
\* whitespace in front of a closing fence that ends the text
StripTrailingFence(s) ==
    IF EndsWith(s, Fence) THEN TrimRight(SubSeq(s, 1, Len(s) - 3)) ELSE s

\* the cleanup of the model response (ResponseSanitizer.sanitize)
Sanitize(raw) ==
    LET t == Trim(raw)
    IN  IF StartsWith(t, FenceJson)
        THEN StripTrailingFence(StripLeading(t, FenceJson))
        ELSE IF StartsWith(t, Fence)
             THEN StripTrailingFence(StripLeading(t, Fence))
             ELSE t

\* ------------------------------------------------------------ JS values
\* A JavaScript value of an entry's field: undefined, null, a string or a
\* number, in one record shape.
Undef == [t |-> "undefined", s |-> "", n |-> 0]
Null == [t |-> "null", s |-> "", n |-> 0]
Str(x) == [t |-> "string", s |-> x, n |-> 0]
Num(x) == [t |-> "number", s |-> "", n |-> x]

\* JavaScript truthiness of such a value
Truthy(v) == (v.t = "string" /\ v.s # "") \/ (v.t = "number" /\ v.n # 0)

\* the columns of the sheet, in order (FoodLogEntry)
Fields ==
    <<"Date", "Time", "Food", "KeyIngredients", "Drinks", "BowelCount",
      "BristolForm", "BowelUrgency", "Pain", "Stress", "Sleep", "Comments">>
FieldSet == {Fields[i] : i \in 1..Len(Fields)}

NoObj == [f \in FieldSet |-> Undef]

\* the object literals a model response may hold, each one token of the text
ObjToks == {"{meal}", "{full}", "{zero}", "{nodate}", "{notime}", "{}"}

ObjOf(tok) ==
    CASE tok = "{meal}" ->
            [NoObj EXCEPT !["Date"] = Str("17/03/2025"), !["Time"] = Str("08:30"),
                          !["Food"] = Str("- Oatmeal"), !["Drinks"] = Str("- Coffee")]
      [] tok = "{full}" ->
            [NoObj EXCEPT !["Date"] = Str("01/01/2025"), !["Time"] = Str("12:15"),
                          !["Food"] = Str("Soup"), !["KeyIngredients"] = Str("- Leek"),
                          !["Drinks"] = Str(""), !["BowelCount"] = Num(2),
                          !["BristolForm"] = Num(4), !["BowelUrgency"] = Num(5),
                          !["Pain"] = Str("mild"), !["Stress"] = Null,
                          !["Sleep"] = Str("7h"), !["Comments"] = Null]
      [] tok = "{zero}" ->
            [NoObj EXCEPT !["Date"] = Str("02/01/2025"), !["Time"] = Str("20:00"),
                          !["BowelCount"] = Num(0), !["BristolForm"] = Null,
                          !["BowelUrgency"] = Null]
      [] tok = "{nodate}" ->
            [NoObj EXCEPT !["Time"] = Str("08:30"), !["Food"] = Str("Toast")]
      [] tok = "{notime}" ->
            [NoObj EXCEPT !["Date"] = Str("03/01/2025"), !["Food"] = Str("Rice")]
      [] OTHER -> NoObj

\* ----------------------------------------------------------- JSON values
\* A parsed JSON value: k is "object", "array", "null" or "number"; "error"
\* stands for the SyntaxError JSON.parse throws.
JObj(o) == [k |-> "object", o |-> o, items |-> <<>>]
JArr(items) == [k |-> "array", o |-> NoObj, items |-> items]
JNull == [k |-> "null", o |-> NoObj, items |-> <<>>]
JNum == [k |-> "number", o |-> NoObj, items |-> <<>>]
JError == [k |-> "error", o |-> NoObj, items |-> <<>>]

RECURSIVE SkipWs(_, _)
SkipWs(t, i) == IF i <= Len(t) /\ IsWs(t[i]) THEN SkipWs(t, i + 1) ELSE i

PFail == [ok |-> FALSE, val |-> JError, next |-> 0]
POk(v, n) == [ok |-> TRUE, val |-> v, next |-> n]

RECURSIVE ParseValue(_, _), ParseElems(_, _, _)
\* one JSON value starting at or after position i
ParseValue(t, i) ==
    LET j == SkipWs(t, i)
    IN  IF j > Len(t) THEN PFail
        ELSE IF t[j] \in ObjToks THEN POk(JObj(ObjOf(t[j])), j + 1)
        ELSE IF t[j] = "null" THEN POk(JNull, j + 1)
        ELSE IF t[j] = "7" THEN POk(JNum, j + 1)
        ELSE IF t[j] = "["
             THEN LET k == SkipWs(t, j + 1)
                  IN  IF k <= Len(t) /\ t[k] = "]"
                      THEN POk(JArr(<<>>), k + 1)
                      ELSE ParseElems(t, j + 1, <<>>)
        ELSE PFail

\* the elements of an array after its "[", up to and including its "]"
ParseElems(t, i, acc) ==
    LET v == ParseValue(t, i)
    IN  IF ~v.ok THEN PFail
        ELSE LET k == SkipWs(t, v.next)
             IN  IF k > Len(t) THEN PFail
                 ELSE IF t[k] = "," THEN ParseElems(t, k + 1, Append(acc, v.val))
                 ELSE IF t[k] = "]" THEN POk(JArr(Append(acc, v.val)), k + 1)
                 ELSE PFail

\* JSON.parse
JSONParse(t) ==
    LET v == ParseValue(t, 1)
    IN  IF v.ok /\ SkipWs(t, v.next) > Len(t) THEN v.val ELSE JError

\* entry.<field> on a non-null value: undefined unless an object holds it
Get(e, f) == IF e.k = "object" THEN e.o[f] ELSE Undef

\* v || ''
OrEmpty(v) == IF Truthy(v) THEN v ELSE Str("")

\* the row appendToGoogleSheets builds of one entry
Row(e) ==
    [i \in 1..Len(Fields) |->
        IF i <= 2 THEN Get(e, Fields[i]) ELSE OrEmpty(Get(e, Fields[i]))]

\* a faulty variant: the rows in reverse order
RowsReversed(es) == [i \in 1..Len(es) |-> Row(es[Len(es) + 1 - i])]

\* entries.map(entry => [...])
Rows(es) == [i \in 1..Len(es) |-> Row(es[i])]

\* parsedData.forEach(entry => console.log(..., entry.Date, ...)) throws a
\* TypeError on a null element
ForEachThrows(items) == \E i \in 1..Len(items) : items[i].k = "null"

\* a faulty variant: the single-object branch does not ask for a Date
DispatchNoDateCheck(p) ==
    IF p.k = "array" THEN p.items
    ELSE IF p.k = "object" THEN <<p>>
    ELSE <<>>

\* the shape dispatch of handleNoteCreated: the entries of a parsed value
Dispatch(p) ==
    IF p.k = "array" THEN p.items
    ELSE IF p.k = "object" /\ Truthy(p.o["Date"]) THEN <<p>>
    ELSE <<>>

\* ----------------------------------------------------------------- inputs
\* what an array of a model response may hold
ArrElems == {"{meal}", "{full}", "{zero}", "{nodate}", "{notime}", "null", "7"}

RECURSIVE ElemSeqs(_)
ElemSeqs(n) ==
    IF n = 0 THEN {<<>>}
    ELSE LET P == ElemSeqs(n - 1) IN P \cup {Append(p, e) : p \in P, e \in ArrElems}

RECURSIVE Joined(_)
Joined(es) ==
    IF Len(es) <= 1 THEN es
    ELSE <<Head(es), ",">> \o Joined(Tail(es))

\* the text of the array of the elements es
ArrayText(es) == <<"[">> \o Joined(es) \o <<"]">>

ArrayBodies == {ArrayText(es) : es \in ElemSeqs(MaxEntries)}
SingleBodies == {<<tok>> : tok \in ObjToks \cup {"null", "7"}}
\* a truncated array, prose, and a value followed by prose
BrokenBodies == {<<"[", "{meal}">>, <<"x">>, <<"{meal}", "x">>}
Bodies == ArrayBodies \cup SingleBodies \cup BrokenBodies

\* a body as the model may wrap it: bare, in whitespace, in a labelled or an
\* unlabelled fence, in a fence that is never closed, in a fence of another tag
Wrappings(b) ==
    { b,
      <<" ">> \o b \o <<"\n">>,
      FenceJson \o <<"\n">> \o b \o <<"\n">> \o Fence,
      Fence \o <<"\n">> \o b \o <<"\n">> \o Fence,
      FenceJson \o <<"\n">> \o b,
      Fence \o <<"j", "s", "\n">> \o b \o <<"\n">> \o Fence }

ModelTexts == {<<>>} \cup UNION {Wrappings(b) : b \in Bodies}

\* the model capability answers with a text (output_text) or fails
ModelResults ==
    {[ok |-> TRUE, text |-> t] : t \in ModelTexts} \cup {[ok |-> FALSE, text |-> <<>>]}

NoTranscript == [present |-> FALSE, text |-> <<>>]
Transcripts ==
    {NoTranscript} \cup
    {[present |-> TRUE, text |-> t] : t \in {<<>>, <<" ">>, <<" ", "\n">>, <<"x">>, <<" ", "x">>}}

Methods == {"POST", "GET"}
Events == {"recording.created", "recording.deleted"}

\* ------------------------------------------------------------------ state
VARIABLES
    env,              \* the bindings: is the OpenAI key set, is the Google key set
    pc,               \* where the fetch handler stands
    jobs,             \* requests received so far
    method, event, transcript,     \* the request being handled
    transformedData, cleanedData, parsedData, entries,  \* locals of handleNoteCreated
    trace,            \* the stages this request went through
    modelCalls,       \* calls of client.responses.create for this request
    appendCalls,      \* the batches handed to appendToGoogleSheets
    requests,         \* the row batches sent to spreadsheets.values.append
    appended,         \* the rows the sheet took for this request
    log,              \* what this request wrote to the console
    escaped,          \* the error that left handleNoteCreated, or "none"
    response,         \* the status of the Response, 0 while pending
    sanpc, raw, out1, out2         \* the sanitizer harness

reqvars == <<method, event, transcript>>
locals == <<transformedData, cleanedData, parsedData, entries>>
effects == <<trace, modelCalls, appendCalls, requests, appended>>
sanvars == <<sanpc, raw, out1, out2>>
vars == <<env, pc, jobs, reqvars, locals, effects, log, escaped, response, sanvars>>

JNone == [k |-> "none", o |-> NoObj, items |-> <<>>]
L(kind, text) == [kind |-> kind, text |-> text]

SanIdle == sanpc = "off" /\ raw = <<>> /\ out1 = <<>> /\ out2 = <<>>

Init ==
    /\ env \in [apiKey : BOOLEAN, googleKey : BOOLEAN]
    /\ pc = "idle"
    /\ jobs = 0
    /\ method = "none" /\ event = "none" /\ transcript = NoTranscript
    /\ transformedData = <<>> /\ cleanedData = <<>>
    /\ parsedData = JNone /\ entries = <<>>
    /\ trace = <<>> /\ modelCalls = 0 /\ appendCalls = <<>>
    /\ requests = <<>> /\ appended = <<>>
    /\ log = <<>> /\ escaped = "none" /\ response = 0
    /\ SanIdle

\* ----------------------------------------------------------- the handlers
\* a faulty variant: only an absent transcript skips the job
FalsyAbsentOnly(tr) == ~tr.present

\* !data.transcript
Falsy(tr) == ~tr.present \/ tr.text = <<>>

\* a faulty variant: the key is never found missing
KeyNeverMissing(hasKey) == FALSE

\* !apiKey
KeyMissing(hasKey) == ~hasKey

\* a faulty variant: the raw response is not logged
InnerCatchNoRaw(rawText) == <<L("invalid JSON", <<>>)>>

\* catch (jsonError): two console.error lines, nothing rethrown
InnerCatch(rawText) == <<L("invalid JSON", <<>>), L("raw response", rawText)>>

\* catch (error) of handleNoteCreated: one console.error line, nothing rethrown
OuterCatch == <<L("transform error", <<>>)>>

\* the request ends: the Response of fetch, 400 when an error reached its catch
End(lines, err) ==
    /\ pc' = "done"
    /\ log' = log \o lines
    /\ escaped' = err
    /\ response' = IF err = "none" THEN 200 ELSE 400

\* fetch up to the first await inside handleNoteCreated
Receive ==
    /\ pc \in {"idle", "done"}
    /\ jobs < MaxJobs
    /\ jobs' = jobs + 1
    /\ transformedData' = <<>> /\ cleanedData' = <<>>
    /\ parsedData' = JNone /\ entries' = <<>>
    /\ trace' = <<>> /\ modelCalls' = 0 /\ appendCalls' = <<>>
    /\ requests' = <<>> /\ appended' = <<>>
    /\ escaped' = "none"
    /\ UNCHANGED <<env, sanvars>>
    /\ \E m \in Methods, bodyOk \in BOOLEAN, ev \in Events, tr \in Transcripts :
        /\ method' = m
        /\ IF m # "POST"
           THEN /\ event' = "none" /\ transcript' = NoTranscript
                /\ pc' = "done" /\ log' = <<>> /\ response' = 405
           ELSE IF ~bodyOk
           THEN /\ event' = "none" /\ transcript' = NoTranscript
                /\ pc' = "done" /\ log' = <<L("webhook error", <<>>)>>
                /\ response' = 400
           ELSE IF ev # "recording.created"
           THEN /\ event' = ev /\ transcript' = NoTranscript
                /\ pc' = "done" /\ log' = <<>> /\ response' = 200
           ELSE /\ event' = ev /\ transcript' = tr
                /\ log' = <<>>
                /\ IF Falsy(tr)
                   THEN pc' = "done" /\ response' = 200
                   ELSE pc' = "transform" /\ response' = 0

\* transformTranscriptWithAI: the key check, then the call of the model
Transform ==
    /\ pc = "transform"
    /\ UNCHANGED <<env, jobs, reqvars, sanvars, cleanedData, parsedData, entries,
                   appendCalls, requests, appended>>
    /\ IF KeyMissing(env.apiKey)
       THEN /\ End(OuterCatch, "none")
            /\ UNCHANGED <<transformedData, trace, modelCalls>>
       ELSE \E r \in ModelResults :
            /\ modelCalls' = modelCalls + 1
            /\ trace' = Append(trace, "model")
            /\ IF r.ok
               THEN /\ transformedData' = IF r.text = <<>> THEN <<"{}">> ELSE r.text
                    /\ pc' = "sanitize"
                    /\ UNCHANGED <<log, escaped, response>>
               ELSE /\ End(<<L("OpenAI API error", <<>>)>> \o OuterCatch, "none")
                    /\ UNCHANGED transformedData

\* the cleanup of the raw response
SanitizeStep ==
    /\ pc = "sanitize"
    /\ cleanedData' = Sanitize(transformedData)
    /\ trace' = Append(trace, "sanitize")
    /\ pc' = "parse"
    /\ UNCHANGED <<env, jobs, reqvars, sanvars, transformedData, parsedData, entries,
                   modelCalls, appendCalls, requests, appended, log, escaped, response>>

\* JSON.parse and the shape dispatch, up to the call of appendToGoogleSheets
ParseStep ==
    /\ pc = "parse"
    /\ trace' = Append(trace, "parse")
    /\ UNCHANGED <<env, jobs, reqvars, sanvars, transformedData, cleanedData,
                   modelCalls, appendCalls, requests, appended>>
    /\ LET p == JSONParse(cleanedData)
       IN  IF p.k = "error"
           THEN /\ UNCHANGED <<parsedData, entries>>
                /\ End(InnerCatch(transformedData), "none")
           ELSE /\ parsedData' = p
                /\ entries' = Dispatch(p)
                /\ IF p.k = "array" /\ ForEachThrows(p.items)
                   THEN End(<<L("valid JSON", <<>>), L("found entries", <<>>)>>
                                \o InnerCatch(transformedData), "none")
                   ELSE IF Len(Dispatch(p)) > 0
                   THEN /\ pc' = "append"
                        /\ log' = log \o <<L("valid JSON", <<>>), L("found entries", <<>>),
                                            L("appending", <<>>)>>
                        /\ UNCHANGED <<escaped, response>>
                   ELSE End(<<L("valid JSON", <<>>),
                              L(IF p.k = "array" THEN "found entries" ELSE "empty or invalid format", <<>>),
                              L("no valid entries", <<>>)>>, "none")

\* appendToGoogleSheets: the JWT client, the rows, the append request; its
\* catch rethrows into catch (jsonError) of handleNoteCreated
AppendStep ==
    /\ pc = "append"
    /\ trace' = Append(trace, "append")
    /\ appendCalls' = Append(appendCalls, entries)
    /\ UNCHANGED <<env, jobs, reqvars, sanvars, locals, modelCalls>>
    /\ IF ~env.googleKey
       THEN /\ UNCHANGED <<requests, appended>>
            /\ End(<<L("sheets error", <<>>)>> \o InnerCatch(transformedData), "none")
       ELSE /\ requests' = Append(requests, Rows(entries))
            /\ \E accepted \in BOOLEAN :
                IF accepted
                THEN /\ appended' = Rows(entries)
                     /\ End(<<L("appended", <<>>)>>, "none")
                ELSE /\ UNCHANGED appended
                     /\ End(<<L("sheets error", <<>>)>> \o InnerCatch(transformedData), "none")

Next == Receive \/ Transform \/ SanitizeStep \/ ParseStep \/ AppendStep

Spec == Init /\ [][Next]_vars

\* ------------------------------------------------------ sanitizer harness
SanSegs == {Fence, <<BT>>, JsonTag, <<" ">>, <<"x">>}

RECURSIVE SegSeqs(_)
SegSeqs(n) ==
    IF n = 0 THEN {<<>>}
    ELSE LET P == SegSeqs(n - 1) IN P \cup {p \o s : p \in P, s \in SanSegs}

SanInputs == SegSeqs(MaxSegs)

SanInit ==
    /\ env = [apiKey |-> TRUE, googleKey |-> TRUE]
    /\ pc = "idle"
    /\ jobs = 0
    /\ method = "none" /\ event = "none" /\ transcript = NoTranscript
    /\ transformedData = <<>> /\ cleanedData = <<>>
    /\ parsedData = JNone /\ entries = <<>>
    /\ trace = <<>> /\ modelCalls = 0 /\ appendCalls = <<>>
    /\ requests = <<>> /\ appended = <<>>
    /\ log = <<>> /\ escaped = "none" /\ response = 0
    /\ sanpc = "in"
    /\ raw \in SanInputs
    /\ out1 = <<>>
    /\ out2 = <<>>

pipeline == <<env, pc, jobs, reqvars, locals, effects, log, escaped, response>>

\* the cleanup applied to a raw response
SanApply ==
    /\ sanpc = "in"
    /\ out1' = Sanitize(raw)
    /\ sanpc' = "once"
    /\ UNCHANGED <<raw, out2, pipeline>>

\* the cleanup applied to its own output
SanAgain ==
    /\ sanpc = "once"
    /\ out2' = Sanitize(out1)
    /\ sanpc' = "twice"
    /\ UNCHANGED <<raw, out1, pipeline>>

SanNext == SanApply \/ SanAgain

SpecSan == SanInit /\ [][SanNext]_vars

\* ------------------------------------------------------ sanitizer claims
HasFence(s) == \E i \in 1..(Len(s) - 2) : SubSeq(s, i, i + 2) = Fence
IsTrimmed(s) == s = <<>> \/ (~IsWs(s[1]) /\ ~IsWs(s[Len(s)]))

\* a text wrapped in a fenced block: an opening and a closing fence
Fenced(t) == Len(t) >= 6 /\ StartsWith(t, Fence) /\ EndsWith(t, Fence)
\* what lies between the two fences
Middle(t) == SubSeq(t, 4, Len(t) - 3)
\* the interior content: the middle without the json tag that follows the
\* opening fence, and without the whitespace around it
Interior(t) ==
    LET m == Middle(t)
    IN  Trim(IF StartsWith(m, JsonTag) THEN Drop(m, 4) ELSE m)

\* C9 as stated: sanitize(sanitize(x)) = sanitize(x) for every x
C9_Idempotent == sanpc = "twice" => out2 = out1

\* C9 amended: sanitizing twice equals sanitizing once whenever the first
\* result does not itself begin with a fence marker
C9_IdempotentUnlessNested ==
    (sanpc = "twice" /\ ~StartsWith(out1, Fence)) => out2 = out1

\* C9 reached: a labelled fenced response in whitespace, sanitized twice
C9_Witness ==
    /\ sanpc = "twice"
    /\ StartsWith(Trim(raw), FenceJson)
    /\ EndsWith(Trim(raw), Fence)
    /\ raw # Trim(raw)
    /\ out1 # <<>>
    /\ out1 # Trim(raw)
    /\ out2 = out1

\* C10 as stated: a fenced response gives exactly its interior content, with
\* no fence marker left and no surrounding whitespace; any other text is
\* returned trimmed and otherwise unchanged
C10_FencedGivesInterior ==
    sanpc # "in" =>
        IF Fenced(Trim(raw))
        THEN out1 = Interior(Trim(raw)) /\ ~HasFence(out1) /\ IsTrimmed(out1)
        ELSE out1 = Trim(raw)

\* C10 amended: a fenced response whose middle holds no further fence
\* marker gives exactly its interior content, with no fence marker left and
\* no surrounding whitespace; a text that does not begin with a fence
\* marker is returned trimmed and otherwise unchanged
C10_SingleFenceGivesInterior ==
    sanpc # "in" =>
        /\ (Fenced(Trim(raw)) /\ ~HasFence(Middle(Trim(raw)))) =>
              (out1 = Interior(Trim(raw)) /\ ~HasFence(out1) /\ IsTrimmed(out1))
        /\ ~StartsWith(Trim(raw), Fence) => out1 = Trim(raw)

\* C10 reached: a labelled fenced response gives its interior
C10_Witness ==
    /\ sanpc = "once"
    /\ raw = FenceJson \o <<" ", "x">> \o Fence
    /\ Fenced(Trim(raw)) /\ ~HasFence(Middle(Trim(raw)))
    /\ out1 = <<"x">>

\* ------------------------------------------------------- pipeline claims
Handled == event = "recording.created"
Logged(line) == \E i \in 1..Len(log) : log[i] = line
LoggedKind(kind) == \E i \in 1..Len(log) : log[i].kind = kind
InTrace(stage) == \E i \in 1..Len(trace) : trace[i] = stage
NothingAppended == appendCalls = <<>> /\ requests = <<>> /\ Len(appended) = 0
AllStages == <<"model", "sanitize", "parse", "append">>

\* C1 as stated: for a transcript that is absent, empty or made only of
\* whitespace, the job appends 0 rows and calls neither the model nor the
\* sheet append
C1_BlankTranscriptSkipped ==
    (Handled /\ (~transcript.present \/ Trim(transcript.text) = <<>>)) =>
        (modelCalls = 0 /\ NothingAppended)

\* C1 amended: for a transcript that is absent or empty, the job ends at
\* once with 0 rows appended, calls neither the model nor the sheet append,
\* and the webhook answers 200
C1_EmptyTranscriptSkipped ==
    (Handled /\ (~transcript.present \/ Len(transcript.text) = 0)) =>
        (pc = "done" /\ trace = <<>> /\ modelCalls = 0 /\ NothingAppended
            /\ response = 200)

\* C1 reached: an empty transcript ends the job with both keys set
C1_Witness ==
    /\ Handled /\ pc = "done"
    /\ transcript.present /\ transcript.text = <<>>
    /\ env.apiKey /\ env.googleKey
    /\ modelCalls = 0 /\ response = 200

\* C2 as stated: every entry of a batch sent to the sheet has a non-empty
\* Date and a non-empty Time
C2_BatchEntriesDated ==
    \A c \in 1..Len(requests) : \A i \in 1..Len(requests[c]) :
        /\ Truthy(Get(appendCalls[c][i], "Date")) /\ Truthy(requests[c][i][1])
        /\ Truthy(Get(appendCalls[c][i], "Time")) /\ Truthy(requests[c][i][2])

\* C3 as stated: when the append request is sent and fails, the error
\* leaves handleNoteCreated, so the fetch handler sees it, and it is not
\* logged as an invalid JSON response
C3_SinkFailureSurfaced ==
    (pc = "done" /\ requests # <<>> /\ Len(appended) = 0) =>
        (escaped # "none" /\ response # 200 /\ ~LoggedKind("invalid JSON"))

\* C4: when the sanitized model output does not parse, the job ends with
\* nothing appended and the sink never called, a line carrying the raw model
\* output is logged, no error leaves handleNoteCreated, the webhook answers
\* 200, and the next request is received
C4_MalformedDegrades ==
    (InTrace("parse") /\ JSONParse(cleanedData).k = "error") =>
        /\ pc = "done"
        /\ NothingAppended
        /\ Logged(L("raw response", transformedData))
        /\ escaped = "none"
        /\ response = 200
        /\ jobs < MaxJobs => ENABLED Receive

\* C4 reached: a truncated array inside a labelled fence
C4_Witness ==
    /\ pc = "done"
    /\ transformedData = FenceJson \o <<"\n", "[", "{meal}", "\n">> \o Fence
    /\ cleanedData = <<"[", "{meal}">>
    /\ Logged(L("raw response", transformedData))
    /\ response = 200

\* the sanitized texts that parse to zero entries
ZeroEntryTexts == {<<"{}">>, <<"null">>, <<"7">>, <<"{nodate}">>, <<"[", "]">>}

\* C5: the stages of a job run in the order model call, sanitize, parse,
\* append, each at most once; the sheet append is called only after the
\* model answered and parsing gave at least one entry, and never when
\* parsing gives zero entries
C5_StageOrder ==
    /\ Len(trace) <= 4
    /\ trace = SubSeq(AllStages, 1, Len(trace))
    /\ modelCalls <= 1 /\ Len(appendCalls) <= 1 /\ Len(requests) <= 1
    /\ modelCalls = (IF InTrace("model") THEN 1 ELSE 0)
    /\ Len(appendCalls) = (IF InTrace("append") THEN 1 ELSE 0)
    /\ appendCalls # <<>> =>
          /\ parsedData.k \in {"array", "object"}
          /\ Len(entries) >= 1
          /\ appendCalls[1] = entries
    /\ (InTrace("parse") /\ cleanedData \in ZeroEntryTexts) =>
          (pc = "done" /\ NothingAppended)
    /\ transformedData = <<"{}">> => NothingAppended

\* C5 reached: a job that ran all four stages and appended two rows
C5_Witness ==
    /\ pc = "done"
    /\ trace = AllStages
    /\ modelCalls = 1
    /\ Len(appendCalls) = 1
    /\ Len(appended) = 2

\* the value of one array element, by its token
ElemVal(tok) ==
    IF tok = "null" THEN JNull ELSE IF tok = "7" THEN JNum ELSE JObj(ObjOf(tok))

\* the array elements the sanitized text spells, when it spells an array
ArrayOf(text) ==
    IF \E es \in ElemSeqs(MaxEntries) : text = ArrayText(es)
    THEN CHOOSE es \in ElemSeqs(MaxEntries) : text = ArrayText(es)
    ELSE <<>>

\* the batch handed on is exactly the array es, and the rows sent are its
\* rows in its order
ForwardedInOrder(es) ==
    /\ Len(entries) = Len(es)
    /\ \A i \in 1..Len(es) : entries[i] = ElemVal(es[i])
    /\ appendCalls = <<entries>>
    /\ Len(requests) = (IF env.googleKey THEN 1 ELSE 0)
    /\ \A c \in 1..Len(requests) :
          /\ Len(requests[c]) = Len(es)
          /\ \A i \in 1..Len(es) : requests[c][i] = Row(ElemVal(es[i]))

C7_NoKeyNoCall ==
    (Handled /\ ~env.apiKey /\ transcript.present /\ transcript.text # <<>>) =>
        /\ modelCalls = 0
        /\ trace = <<>>
        /\ NothingAppended
        /\ pc = "done" => (log = <<L("transform error", <<>>)>> /\ response = 200)
        /\ pc \in {"transform", "done"}

\* C7 reached: a job with a transcript and no API key has ended
C7_Witness ==
    /\ Handled /\ ~env.apiKey /\ pc = "done"
    /\ transcript.text = <<"x">>
    /\ modelCalls = 0
    /\ LoggedKind("transform error")

\* an entry whose fields lie in the domains of the data model
NumOrNull(v, lo, hi) ==
    v.t \in {"undefined", "null"} \/ (v.t = "number" /\ v.n >= lo /\ v.n <= hi)
InDomain(e) ==
    /\ e.k = "object"
    /\ Truthy(e.o["Date"]) /\ e.o["Date"].t = "string"
    /\ Truthy(e.o["Time"]) /\ e.o["Time"].t = "string"
    /\ \A f \in {"Food", "KeyIngredients", "Drinks", "Pain", "Stress", "Sleep", "Comments"} :
          e.o[f].t \in {"undefined", "null", "string"}
    /\ e.o["BowelCount"].t \in {"undefined", "null"}
          \/ (e.o["BowelCount"].t = "number" /\ e.o["BowelCount"].n >= 0)
    /\ NumOrNull(e.o["BristolForm"], 1, 7)
    /\ NumOrNull(e.o["BowelUrgency"], 1, 5)

\* the value of a field as the sheet should carry it
Cell(v) == IF v.t \in {"undefined", "null"} THEN Str("") ELSE v

\* C8 as stated: the row of an entry within the data model's domains is its
\* 12 columns in the order of Fields, each carrying the entry's value, an
\* absent or null field as the empty string
C8_RowProjection ==
    \A c \in 1..Len(requests) : \A i \in 1..Len(requests[c]) :
        InDomain(appendCalls[1][i]) =>
            /\ Len(requests[c][i]) = 12
            /\ \A j \in 1..12 :
                  requests[c][i][j] = Cell(appendCalls[1][i].o[Fields[j]])

====
